---- MODULE Spec2Model ----
(***************************************************************************)
(* Model of train_waterbirds.py: main's training loop, the validation and  *)
(* test evaluations done by eval_model, the best-accuracy tracker and the  *)
(* checkpoints written by torch.save.                                      *)
(*                                                                         *)
(* Abstractions.  Weights are a version number (0 = the pretrained         *)
(* weights, +1 per optimizer.step()).  Losses and accuracies are small     *)
(* naturals; quotients are exact rationals <<num, den>> in lowest terms.   *)
(* A Python dict is a function over its string keys.  None is -1 in the    *)
(* fields whose real values are naturals.  A metric whose value no branch   *)
(* of the script reads (precision, recall, F-score, BB-Loc, BB-IoU) is the  *)
(* constant Metric.                                                        *)
(*                                                                         *)
(* Left out: the TensorBoard writer (it only reads the metrics), the       *)
(* choice of backbone and --model_path (other initial weights), the seed,  *)
(* --use_loss_weights, --annotated_fraction and --box_dilation_percentage  *)
(* (they change values of losses and names of directories, not control).   *)
(* Datasets are not empty and --evaluation_frequency and the batch sizes   *)
(* are positive.                                                           *)
(***************************************************************************)
EXTENDS Integers, Sequences, FiniteSets, TLC

\* ---------------------------------------------------------------- bounds
MaxEpochs == 3
MaxFreq == 2
MaxAcc == 1
MaxTrainLen == 3
MaxEvalLen == 2
MaxBatchSize == 2
MaxLoss == 1
MaxLambda == 1

None == -1
Metric == 0

AccVals == 0..MaxAcc
MinAccVals == {-1, MaxAcc}
ClassLossVals == 1..(MaxLoss + 1)
LocLossVals == 0..MaxLoss
EvalLossVals == 1..MaxLoss

NoStr == "None"

VARIABLES
    args,                     \* the parsed arguments
    data,                     \* len(train_data), len(val_data), len(test_data)
    pc,                       \* where main is
    e,                        \* the loop variable of line 282 (None: unbound)
    model,                    \* the weights of the model
    num_batches,              \* num_train_batches, num_val_batches, num_test_batches
    attributor,               \* the attribution method of attributor, or None
    eval_attributor,          \* the attribution method of eval_attributor, or None
    batches,                  \* sizes of the batches train_loader still yields
    total_loss,               \* lines 283, 319
    total_class_loss,         \* lines 284, 297
    total_localization_loss,  \* lines 285, 314-316
    attributor_calls,         \* calls of attributor made by the training loop
    loss_loc_calls,           \* calls of loss_loc made by the training loop
    metric_vals,              \* main's metric_vals (empty: unbound)
    acc_tracker,              \* utils.BestMetricTracker("Accuracy")
    evals,                    \* the epochs k after which a validation ran
    best_val_acc,             \* highest Accuracy of the validations run so far
    tracker_updates,          \* calls of acc_tracker.update
    last_eval,                \* the latest call of eval_model
    final_metrics,            \* main's final_metrics, saved at lines 368-369
    pareto_front_tracker,     \* utils.ParetoFrontModels, under --pareto
    saved                     \* the torch.save calls, in order

vars == <<args, data, pc, e, model, num_batches, attributor, eval_attributor,
          batches, total_loss, total_class_loss, total_localization_loss,
          attributor_calls, loss_loc_calls,
          metric_vals, acc_tracker, evals, best_val_acc, tracker_updates,
          last_eval, final_metrics, pareto_front_tracker, saved>>

\* ------------------------------------------------------------- helpers
Min(a, b) == IF a < b THEN a ELSE b

RECURSIVE Gcd(_, _)
Gcd(a, b) == IF b = 0 THEN a ELSE Gcd(b, a % b)

\* the quotient a / b of two naturals, b > 0, in lowest terms
Rat(a, b) == LET g == Gcd(a, b) IN <<a \div g, b \div g>>

\* p / q for rationals p and q, q > 0
RatDiv(p, q) == Rat(p[1] * q[2], p[2] * q[1])

RECURSIVE SumSeq(_)
SumSeq(s) == IF s = <<>> THEN 0 ELSE Head(s) + SumSeq(Tail(s))

\* dict.update(d2) / d1 | d2: the right operand wins on a common key
DictUpdate(d1, d2) ==
    [k \in (DOMAIN d1) \cup (DOMAIN d2) |->
        IF k \in DOMAIN d2 THEN d2[k] ELSE d1[k]]

EmptyDict == [k \in {} |-> None]

\* the batch sizes a DataLoader over n samples yields (drop_last is False)
RECURSIVE LoaderBatches(_, _)
LoaderBatches(n, bs) ==
    IF n = 0 THEN <<>>
    ELSE <<Min(n, bs)>> \o LoaderBatches(n - Min(n, bs), bs)

\* ------------------------------------------------- metrics and eval_model
\* acc_metric.compute(): the classification metrics of MultiLabelMetrics
AccMetricCompute(acc) ==
    [k \in {"Accuracy", "Precision", "Recall", "F-Score"} |->
        IF k = "Accuracy" THEN acc ELSE Metric]

\* eval_model: losses is the sequence of the per-batch losses of the batches
\* the loader yields, acc the accuracy of the model on the loader's data
EvalModel(attr, nb, acc, losses) ==
    LET total == SumSeq(losses)
        m0 == AccMetricCompute(acc)
        m1 == IF attr # NoStr
              THEN DictUpdate(m0, [k \in {"BB-Loc", "BB-IoU"} |-> Metric])
              ELSE m0
    IN DictUpdate(m1, [k \in {"Average-Loss"} |-> RatDiv(<<total, 1>>, nb)])

\* what one call of eval_model did: the loader, the batches it yielded, the
\* num_batches argument and the summed loss
EvalRecord(name, nb, losses, mv) ==
    [loader |-> name, yielded |-> Len(losses), num_batches |-> nb,
     total_loss |-> SumSeq(losses), returned |-> mv]

NoEval == [loader |-> NoStr, yielded |-> 0, num_batches |-> <<0, 1>>,
           total_loss |-> 0, returned |-> EmptyDict]

\* utils.update_val_metrics: every metric is copied under a "Val-" key
ValKey(k) ==
    CASE k = "Accuracy" -> "Val-Accuracy"
      [] k = "Precision" -> "Val-Precision"
      [] k = "Recall" -> "Val-Recall"
      [] k = "F-Score" -> "Val-F-Score"
      [] k = "BB-Loc" -> "Val-BB-Loc"
      [] k = "BB-IoU" -> "Val-BB-IoU"
      [] k = "Average-Loss" -> "Val-Average-Loss"
      [] OTHER -> k

update_val_metrics(d) ==
    LET ks == DOMAIN d
        vs == {ValKey(k) : k \in ks}
    IN DictUpdate(d, [v \in vs |-> d[CHOOSE k \in ks : ValKey(k) = v]])

\* ------------------------------------------------ utils.BestMetricTracker
NewTracker ==
    [initialized |-> FALSE, best_metrics |-> EmptyDict,
     best_model_dict |-> None, best_epoch |-> None]

\* get_best(): (score, model dict, epoch, metrics), all None before an update
get_best(t) ==
    IF ~t.initialized THEN [score |-> None, model |-> None,
                            epoch |-> None, metrics |-> EmptyDict]
    ELSE [score |-> t.best_metrics["Accuracy"], model |-> t.best_model_dict,
          epoch |-> t.best_epoch, metrics |-> t.best_metrics]

\* update(metric_dict, model, epoch): keeps a copy of the strictly better one
TrackerUpdate(t, mv, m, ep) ==
    IF ~t.initialized \/ t.best_metrics["Accuracy"] < mv["Accuracy"]
    THEN [initialized |-> TRUE, best_metrics |-> mv,
          best_model_dict |-> m, best_epoch |-> ep]
    ELSE t

\* --------------------------------------------------------------- arguments
Args ==
    [total_epochs : 0..MaxEpochs,
     evaluation_frequency : 1..MaxFreq,
     min_acc : MinAccVals,
     optimize_explanations : BOOLEAN,
     attribution_method : {NoStr, "GradCam"},
     localization_loss_fn : {NoStr, "Energy"},
     localization_loss_lambda : 0..MaxLambda,
     pareto : BOOLEAN,
     train_batch_size : 1..MaxBatchSize,
     eval_batch_size : 1..MaxBatchSize]

Datasets == [train : 1..MaxTrainLen, val : 1..MaxEvalLen, test : 1..MaxEvalLen]

\* The runs explored start from BaseArgs and BaseData and vary the options of
\* one group at a time (--pareto is varied in every run).
BaseArgs ==
    [total_epochs |-> 2, evaluation_frequency |-> 1, min_acc |-> -1,
     optimize_explanations |-> FALSE, attribution_method |-> NoStr,
     localization_loss_fn |-> NoStr, localization_loss_lambda |-> 1,
     pareto |-> FALSE, train_batch_size |-> 2, eval_batch_size |-> 1]

BaseData == [train |-> 2, val |-> 1, test |-> 1]

OptionGroups == {"loop", "explanations", "training data", "evaluation data"}

Group(g, a, d) ==
    CASE g = "loop" ->
            <<a.total_epochs, a.evaluation_frequency, a.min_acc>>
      [] g = "explanations" ->
            <<a.optimize_explanations, a.attribution_method,
              a.localization_loss_fn, a.localization_loss_lambda>>
      [] g = "training data" -> <<a.train_batch_size, d.train>>
      [] g = "evaluation data" -> <<a.eval_batch_size, d.val, d.test>>

OneGroupVaried(a, d) ==
    \E g \in OptionGroups :
        \A h \in OptionGroups \ {g} :
            Group(h, a, d) = Group(h, BaseArgs, BaseData)

Init ==
    /\ args \in Args
    /\ data \in Datasets
    /\ OneGroupVaried(args, data)
    /\ pc = "setup"
    /\ e = None
    /\ model = 0
    /\ num_batches = [train |-> <<0, 1>>, val |-> <<0, 1>>, test |-> <<0, 1>>]
    /\ attributor = NoStr
    /\ eval_attributor = NoStr
    /\ batches = <<>>
    /\ total_loss = 0
    /\ total_class_loss = 0
    /\ total_localization_loss = 0
    /\ attributor_calls = 0
    /\ loss_loc_calls = 0
    /\ metric_vals = EmptyDict
    /\ acc_tracker = NewTracker
    /\ evals = <<>>
    /\ best_val_acc = None
    /\ tracker_updates = 0
    /\ last_eval = NoEval
    /\ final_metrics = [file |-> NoStr, n |-> None, content |-> EmptyDict]
    /\ pareto_front_tracker = [updates |-> 0, saved |-> FALSE]
    /\ saved = <<>>

\* ------------------------------------------------------------------ main
\* lines 130-279: model, datasets, loaders, batch counts, losses, attributors.
\* With an attribution method and no localization loss, loss_loc is None and
\* loss_loc.only_positive raises.
Setup ==
    /\ pc = "setup"
    /\ args.attribution_method # NoStr => args.localization_loss_fn # NoStr
    /\ num_batches' = [train |-> Rat(data.train, args.train_batch_size),
                       val |-> Rat(data.val, args.eval_batch_size),
                       test |-> Rat(data.test, args.eval_batch_size)]
    /\ attributor' = args.attribution_method
    /\ eval_attributor' = args.attribution_method
    /\ pc' = "for_e"
    /\ UNCHANGED <<args, data, e, model, batches, total_loss, total_class_loss,
                   total_localization_loss, attributor_calls,
                   loss_loc_calls, metric_vals, acc_tracker, evals,
                   best_val_acc, tracker_updates, last_eval, final_metrics,
                   pareto_front_tracker, saved>>

SetupError ==
    /\ pc = "setup"
    /\ args.attribution_method # NoStr
    /\ args.localization_loss_fn = NoStr
    /\ pc' = "setup_error"
    /\ UNCHANGED <<args, data, e, model, num_batches, attributor,
                   eval_attributor, batches, total_loss, total_class_loss,
                   total_localization_loss, attributor_calls,
                   loss_loc_calls, metric_vals, acc_tracker, evals,
                   best_val_acc, tracker_updates, last_eval, final_metrics,
                   pareto_front_tracker, saved>>

\* line 282-285: the next value of range(total_epochs), the epoch's sums reset
EpochBegin ==
    /\ pc = "for_e"
    /\ e + 1 < args.total_epochs
    /\ e' = e + 1
    /\ total_loss' = 0
    /\ total_class_loss' = 0
    /\ total_localization_loss' = 0
    /\ batches' = LoaderBatches(data.train, args.train_batch_size)
    /\ pc' = "batch"
    /\ UNCHANGED <<args, data, model, num_batches, attributor, eval_attributor,
                   attributor_calls, loss_loc_calls, metric_vals,
                   acc_tracker, evals, best_val_acc, tracker_updates,
                   last_eval,                    final_metrics, pareto_front_tracker, saved>>

\* the sum of the localization losses of the annotated images of a batch
RECURSIVE LocalizationLoss(_)
LocalizationLoss(locs) ==
    IF locs = <<>> THEN 0
    ELSE (IF Head(locs) = None THEN 0 ELSE Head(locs))
         + LocalizationLoss(Tail(locs))

Annotated(locs) == Cardinality({i \in DOMAIN locs : locs[i] # None})

\* a batch loss that runs the localization branch whenever an attributor exists
BatchLossIfAttributor(a, loss, locs) ==
    IF a.attribution_method # NoStr
    THEN [batch_loss |-> loss + a.localization_loss_lambda * LocalizationLoss(locs),
          loss |-> loss,
          localization_loss |-> LocalizationLoss(locs),
          attributor_calls |-> 1,
          loss_loc_calls |-> Annotated(locs)]
    ELSE [batch_loss |-> loss, loss |-> loss, localization_loss |-> 0,
          attributor_calls |-> 0, loss_loc_calls |-> 0]

\* lines 288-316: the loss of one batch.  loss is the classification loss,
\* locs[i] the localization loss of image i (None: the image has no box).
BatchLoss(a, loss, locs) ==
    IF a.optimize_explanations
    THEN [batch_loss |-> loss + a.localization_loss_lambda * LocalizationLoss(locs),
          loss |-> loss,
          localization_loss |-> LocalizationLoss(locs),
          attributor_calls |-> 1,
          loss_loc_calls |-> Annotated(locs)]
    ELSE [batch_loss |-> loss, loss |-> loss, localization_loss |-> 0,
          attributor_calls |-> 0, loss_loc_calls |-> 0]

\* lines 303-311: the per-image localization losses of a batch of the given
\* size (None: train_bbs[img_idx] is None); the boxes are read only when the
\* explanations are optimized
BatchBoxes(a, size) ==
    IF a.optimize_explanations
    THEN [1..size -> LocLossVals \cup {None}]
    ELSE {<<>>}

\* lines 287-320: one training batch
TrainBatch ==
    /\ pc = "batch"
    /\ batches # <<>>
    /\ args.optimize_explanations => attributor # NoStr
    /\ \E loss \in ClassLossVals :
       \E locs \in BatchBoxes(args, Head(batches)) :
          LET b == BatchLoss(args, loss, locs) IN
          /\ total_class_loss' = total_class_loss + b.loss
          /\ total_localization_loss' =
                 total_localization_loss + b.localization_loss
          /\ total_loss' = total_loss + b.batch_loss
          /\ attributor_calls' = attributor_calls + b.attributor_calls
          /\ loss_loc_calls' = loss_loc_calls + b.loss_loc_calls
    /\ model' = model + 1
    /\ batches' = Tail(batches)
    /\ UNCHANGED <<args, data, pc, e, num_batches, attributor, eval_attributor,
                   metric_vals, acc_tracker, evals, best_val_acc,
                   tracker_updates, last_eval, final_metrics,
                   pareto_front_tracker, saved>>

\* line 301 with attributor None: the call raises in the first batch
TrainBatchError ==
    /\ pc = "batch"
    /\ batches # <<>>
    /\ args.optimize_explanations
    /\ attributor = NoStr
    /\ pc' = "train_error"
    /\ UNCHANGED <<args, data, e, model, num_batches, attributor,
                   eval_attributor, batches, total_loss, total_class_loss,
                   total_localization_loss, attributor_calls,
                   loss_loc_calls, metric_vals, acc_tracker, evals,
                   best_val_acc, tracker_updates, last_eval, final_metrics,
                   pareto_front_tracker, saved>>

\* a validation schedule counting from the loop index instead of e+1
EvalDueOnIndex(a, ep) == ep % a.evaluation_frequency = 0

\* line 328: is the epoch that just ended followed by a validation?
EvalDue(a, ep) == (ep + 1) % a.evaluation_frequency = 0

\* line 334: the early-stop test on the tracker's best accuracy
BelowThreshold(a, t) ==
    get_best(t).score # None /\ get_best(t).score < a.min_acc

\* lines 322-328 when no validation is due
EpochEnd ==
    /\ pc = "batch"
    /\ batches = <<>>
    /\ ~EvalDue(args, e)
    /\ pc' = "for_e"
    /\ UNCHANGED <<args, data, e, model, num_batches, attributor,
                   eval_attributor, batches, total_loss, total_class_loss,
                   total_localization_loss, attributor_calls,
                   loss_loc_calls, metric_vals, acc_tracker, evals,
                   best_val_acc, tracker_updates, last_eval, final_metrics,
                   pareto_front_tracker, saved>>

\* pareto_front_tracker.update / save_pareto_front, done only under --pareto
ParetoUpdate(a, p) ==
    IF a.pareto THEN [p EXCEPT !.updates = @ + 1] ELSE p

ParetoSave(a, p) ==
    IF a.pareto THEN [p EXCEPT !.saved = TRUE] ELSE p

\* lines 337-341: the dict saved as model_checkpoint_stopped_{e+1}.pt
StoppedCheckpoint(a, mv, ep) ==
    [file |-> "model_checkpoint_stopped", n |-> ep + 1,
     content |->
        DictUpdate(DictUpdate(mv, DictUpdate([model |-> None, epochs |-> ep + 1], a)),
                   [BelowThresh |-> TRUE])]

\* lines 329-344: validation, then the early stop
ValidateStop ==
    /\ pc = "batch"
    /\ batches = <<>>
    /\ EvalDue(args, e)
    /\ BelowThreshold(args, acc_tracker)
    /\ \E acc \in AccVals :
       \E losses \in [1..Len(LoaderBatches(data.val, args.eval_batch_size))
                        -> EvalLossVals] :
          LET mv == EvalModel(eval_attributor, num_batches.val, acc, losses)
              ck == StoppedCheckpoint(args, mv, e)
          IN /\ last_eval' = EvalRecord("val", num_batches.val, losses, mv)
             /\ metric_vals' = ck.content
             /\ best_val_acc' = IF acc > best_val_acc THEN acc ELSE best_val_acc
             /\ saved' = Append(saved, ck)
    /\ pareto_front_tracker' =
           ParetoSave(args, ParetoUpdate(args, pareto_front_tracker))
    /\ evals' = Append(evals, e + 1)
    /\ pc' = "stopped"
    /\ UNCHANGED <<args, data, e, model, num_batches, attributor,
                   eval_attributor, batches, total_loss, total_class_loss,
                   total_localization_loss, attributor_calls,
                   loss_loc_calls, acc_tracker, tracker_updates,
                   final_metrics>>

\* lines 329-345: validation, then the tracker update and the next epoch
ValidateContinue ==
    /\ pc = "batch"
    /\ batches = <<>>
    /\ EvalDue(args, e)
    /\ ~BelowThreshold(args, acc_tracker)
    /\ \E acc \in AccVals :
       \E losses \in [1..Len(LoaderBatches(data.val, args.eval_batch_size))
                        -> EvalLossVals] :
          LET mv == EvalModel(eval_attributor, num_batches.val, acc, losses)
          IN /\ last_eval' = EvalRecord("val", num_batches.val, losses, mv)
             /\ metric_vals' = mv
             /\ best_val_acc' = IF acc > best_val_acc THEN acc ELSE best_val_acc
             /\ acc_tracker' = TrackerUpdate(acc_tracker, mv, model, e)
    /\ tracker_updates' = tracker_updates + 1
    /\ pareto_front_tracker' = ParetoUpdate(args, pareto_front_tracker)
    /\ evals' = Append(evals, e + 1)
    /\ pc' = "for_e"
    /\ UNCHANGED <<args, data, e, model, num_batches, attributor,
                   eval_attributor, batches, total_loss, total_class_loss,
                   total_localization_loss, attributor_calls,
                   loss_loc_calls, final_metrics, saved>>

\* range(total_epochs) is exhausted; lines 347-348
LoopExit ==
    /\ pc = "for_e"
    /\ ~(e + 1 < args.total_epochs)
    /\ pareto_front_tracker' = ParetoSave(args, pareto_front_tracker)
    /\ pc' = "after_loop"
    /\ UNCHANGED <<args, data, e, model, num_batches, attributor,
                   eval_attributor, batches, total_loss, total_class_loss,
                   total_localization_loss, attributor_calls,
                   loss_loc_calls, metric_vals, acc_tracker, evals,
                   best_val_acc, tracker_updates, last_eval, final_metrics, saved>>

\* line 350 when no validation ever ran: metric_vals is unbound
FinishError ==
    /\ pc = "after_loop"
    /\ metric_vals = EmptyDict
    /\ pc' = "finish_error"
    /\ UNCHANGED <<args, data, e, model, num_batches, attributor,
                   eval_attributor, batches, total_loss, total_class_loss,
                   total_localization_loss, attributor_calls,
                   loss_loc_calls, metric_vals, acc_tracker, evals,
                   best_val_acc, tracker_updates, last_eval, final_metrics,
                   pareto_front_tracker, saved>>

\* a final checkpoint named and stamped with the loop index e instead of e+1
FinalCheckpointOnIndex(a, test_metrics, val_metrics, m, ep) ==
    [file |-> "model_checkpoint_final", n |-> ep,
     content |->
        DictUpdate(DictUpdate(test_metrics, val_metrics),
                   DictUpdate([model |-> m, epochs |-> ep], a))]

\* lines 354-357 and 368-369: the dict saved as model_checkpoint_final_{e+1}.pt;
\* m is the model's state dict when line 354 copies it
FinalCheckpoint(a, test_metrics, val_metrics, m, ep) ==
    [file |-> "model_checkpoint_final", n |-> ep + 1,
     content |->
        DictUpdate(DictUpdate(test_metrics, val_metrics),
                   DictUpdate([model |-> m, epochs |-> ep + 1], a))]

\* lines 359-366 and 370-371: the dict saved as model_checkpoint_acc_best.pt
BestCheckpoint(a, test_metrics, t) ==
    [file |-> "model_checkpoint_acc_best", n |-> None,
     content |->
        DictUpdate(DictUpdate(test_metrics, update_val_metrics(get_best(t).metrics)),
                   DictUpdate([model |-> get_best(t).model,
                               epochs |-> get_best(t).epoch + 1], a))]

\* lines 350-357: the test evaluation of the last weights
FinishFinal ==
    /\ pc = "after_loop"
    /\ metric_vals # EmptyDict
    /\ metric_vals' = update_val_metrics(metric_vals)
    /\ \E acc \in AccVals :
       \E losses \in [1..Len(LoaderBatches(data.test, args.eval_batch_size))
                        -> EvalLossVals] :
          LET tm == EvalModel(eval_attributor, num_batches.test, acc, losses)
          IN /\ last_eval' = EvalRecord("test", num_batches.test, losses, tm)
             /\ final_metrics' =
                    FinalCheckpoint(args, tm, update_val_metrics(metric_vals),
                                    model, e)
    /\ pc' = "best"
    /\ UNCHANGED <<args, data, e, model, num_batches, attributor,
                   eval_attributor, batches, total_loss, total_class_loss,
                   total_localization_loss, attributor_calls,
                   loss_loc_calls, acc_tracker, evals, best_val_acc,
                   tracker_updates,                    pareto_front_tracker, saved>>

\* lines 359-371: the best weights are loaded and tested, both files are saved
FinishBest ==
    /\ pc = "best"
    /\ model' = get_best(acc_tracker).model
    /\ \E acc \in AccVals :
       \E losses \in [1..Len(LoaderBatches(data.test, args.eval_batch_size))
                        -> EvalLossVals] :
          LET tm == EvalModel(eval_attributor, num_batches.test, acc, losses)
          IN /\ last_eval' = EvalRecord("test", num_batches.test, losses, tm)
             /\ saved' = saved \o <<final_metrics,
                                    BestCheckpoint(args, tm, acc_tracker)>>
    /\ pc' = "done"
    /\ UNCHANGED <<args, data, e, num_batches, attributor, eval_attributor,
                   batches, total_loss, total_class_loss,
                   total_localization_loss, attributor_calls,
                   loss_loc_calls, metric_vals, acc_tracker, evals,
                   best_val_acc, tracker_updates, final_metrics, pareto_front_tracker>>

Next ==
    \/ Setup
    \/ SetupError
    \/ EpochBegin
    \/ TrainBatch
    \/ TrainBatchError
    \/ EpochEnd
    \/ ValidateStop
    \/ ValidateContinue
    \/ LoopExit
    \/ FinishError
    \/ FinishFinal
    \/ FinishBest

Spec == Init /\ [][Next]_vars

\* ------------------------------------------------------------ properties
\* the epochs whose end (lines 322-345) main has gone through
EpochsDone == IF pc \in {"batch", "train_error"} THEN e ELSE e + 1

BatchesPerEpoch == Len(LoaderBatches(data.train, args.train_batch_size))

\* C1: main goes on after a validation only if the best validation accuracy
\* so far, the validation just finished included, is at least min_acc;
\* otherwise it stops at that validation.
C1_StopsAtSameEvaluation ==
    (evals # <<>> /\ pc # "stopped") => best_val_acc >= args.min_acc

\* C2: without optimize_explanations the training never calls the attributor
\* or the localization loss, the localization sum stays 0 and the summed
\* batch loss is the summed classification loss after every batch (so each
\* backpropagated batch loss is the classification loss), whatever lambda,
\* the attribution method and the localization loss are.
C2_ClassificationLossOnly ==
    ~args.optimize_explanations =>
        /\ attributor_calls = 0
        /\ loss_loc_calls = 0
        /\ total_localization_loss = 0
        /\ total_loss = total_class_loss

C2_Witness ==
    /\ ~args.optimize_explanations
    /\ args.attribution_method # NoStr
    /\ args.localization_loss_fn # NoStr
    /\ args.localization_loss_lambda # 1
    /\ pc = "batch"
    /\ batches = <<>>
    /\ e = 1
    /\ total_class_loss > 0

\* C3: every call of eval_model returns a dict with the F-score, BB-Loc and
\* BB-IoU, with or without an attribution method, on validation and on test.
C3_EvalReturnsAllMetrics ==
    last_eval.loader # NoStr =>
        {"F-Score", "BB-Loc", "BB-IoU"} \subseteq DOMAIN last_eval.returned

\* C4: a validation runs after epoch k exactly when k is a multiple of
\* evaluation_frequency and main has not stopped before; a run that leaves the
\* loop has run total_epochs \div evaluation_frequency validations and as many
\* tracker updates.
C4_EvaluationSchedule ==
    /\ {evals[i] : i \in DOMAIN evals}
           = {k \in 1..EpochsDone : k % args.evaluation_frequency = 0}
    /\ \A i, j \in DOMAIN evals : i < j => evals[i] < evals[j]
    /\ tracker_updates = Len(evals) - (IF pc = "stopped" THEN 1 ELSE 0)
    /\ pc \in {"after_loop", "finish_error", "best", "done"} =>
        /\ Len(evals) = args.total_epochs \div args.evaluation_frequency
        /\ tracker_updates = args.total_epochs \div args.evaluation_frequency

C4_Witness ==
    /\ pc = "done"
    /\ args.evaluation_frequency = 2
    /\ args.total_epochs = 3
    /\ Len(evals) = 1
    /\ tracker_updates = 1

\* C5: the num_batches argument of every eval_model call is the whole number
\* of batches the loader yields, so Average-Loss is the summed batch loss
\* over the number of batches evaluated.
C5_NumBatchesIsBatchCount ==
    last_eval.loader # NoStr =>
        /\ last_eval.num_batches = <<last_eval.yielded, 1>>
        /\ last_eval.returned["Average-Loss"]
               = Rat(last_eval.total_loss, last_eval.yielded)

\* C6: a run that ends without an error has written either the stopped
\* checkpoint alone (model None, BelowThresh True, epochs = the epochs
\* trained) or the final checkpoint (the weights after the last epoch, named
\* with total_epochs) followed by the best checkpoint (the tracker's best
\* weights, epochs at most total_epochs), and nothing else.
C6_CheckpointSets ==
    /\ pc = "stopped" =>
        /\ Len(saved) = 1
        /\ saved[1].file = "model_checkpoint_stopped"
        /\ saved[1].n = EpochsDone
        /\ model = EpochsDone * BatchesPerEpoch
        /\ saved[1].content["model"] = None
        /\ saved[1].content["BelowThresh"] = TRUE
        /\ saved[1].content["epochs"] = EpochsDone
    /\ pc = "done" =>
        /\ Len(saved) = 2
        /\ saved[1].file = "model_checkpoint_final"
        /\ saved[1].n = args.total_epochs
        /\ saved[1].content["model"] = args.total_epochs * BatchesPerEpoch
        /\ saved[1].content["epochs"] = args.total_epochs
        /\ "BelowThresh" \notin DOMAIN saved[1].content
        /\ saved[2].file = "model_checkpoint_acc_best"
        /\ saved[2].content["model"] = acc_tracker.best_model_dict
        /\ saved[2].content["model"]
               = saved[2].content["epochs"] * BatchesPerEpoch
        /\ saved[2].content["epochs"] \in 1..args.total_epochs
        /\ "BelowThresh" \notin DOMAIN saved[2].content
        /\ model = acc_tracker.best_model_dict

C6_Witness ==
    /\ pc = "done"
    /\ Len(saved) = 2
    /\ saved[2].content["epochs"] < saved[1].content["epochs"]
    /\ saved[2].content["model"] # saved[1].content["model"]

====
